---- MODULE Spec2Model ----
(***************************************************************************)
(* Model of the rain-dashboard scripts: the hourly precipitation pipeline  *)
(* (fetch, normalise, observed/forecast split, status card) of             *)
(* streamlit_app.py, old_app.py and test_env.py, the intensity bands, the  *)
(* monthly roll-up and the radius status card of google_streamlit_app.py.  *)
(*                                                                         *)
(* Time is counted in whole hours of America/Sao_Paulo wall clock and      *)
(* precipitation in hundredths of a millimetre.                            *)
(***************************************************************************)
EXTENDS Integers, Sequences, FiniteSets, TLC

VARIABLES
    variant,      \* which script runs: "streamlit_app", "old_app", "test_env"
    data,         \* the JSON the hourly request returned (or its failure)
    now,          \* datetime.now(BR_TZ) of this run
    pc,           \* position of the script run; "fetch_raised" and
                  \* "status_raised" when an exception ended it
    df_hourly,    \* the hourly table: rows [time, precip]
    tz,           \* timezone of the table's time column: "naive" or "BRT"
    is_forecast,  \* the is_forecast column (hist_mask negated, for old_app)
    df_hist,      \* the observed part
    df_fore,      \* the forecast part
    last_row,     \* the row the status is computed from
    status,       \* the band shown by the status card / subheader
    raised,       \* the exception that ended the run, "none" otherwise
    ui,           \* what the run rendered
    points,       \* google_streamlit_app.py: the response of each sampling point
    df_radius,    \* google_streamlit_app.py: the max-per-hour table
    daily,        \* the JSON the monthly request returned (or its failure)
    df_monthly,   \* the 12-month table: rows [month, precip]
    cell,         \* the latest-sample cell handed to the band functions
    bands,        \* the band each caller gives it
    grid,         \* google_streamlit_app.py: the sampling points, as offsets
                  \* from the centre
    state_vals,   \* old_app.py: the daily response of each state capital
    df_states,    \* old_app.py: the per-state totals
    clock,        \* wall-clock time in seconds
    cache,        \* the st.cache_data store of the hourly fetch, by city
    api_up,       \* whether the source answers requests at present
    city,         \* the city selected in this run
    requested,    \* whether this run issued a request to the source
    window,       \* the request window the served series was built for
    served_at,    \* the time at which the served series was fetched
    prev_split    \* the is_forecast column of the previous run, with the
                  \* city and the fetch time of the series it was computed on

pipeVars == <<variant, data, now, pc, df_hourly, tz, is_forecast, df_hist,
              df_fore, last_row, status, raised, ui>>
googleVars == <<points, df_radius, grid>>
monthVars == <<daily, df_monthly>>
classVars == <<cell, bands>>
stateVars == <<state_vals, df_states>>
cacheVars == <<clock, cache, api_up, city, requested, window, served_at,
               prev_split>>
extVars == <<stateVars, cacheVars>>

vars == <<pipeVars, googleVars, monthVars, classVars, extVars>>

---------------------------------------------------------------------------
(* Bounds of the model *)
MaxRows == 3
MaxTime == 3
MaxValue == 300
MaxPoints == 2
MaxHours == 2
MaxDaily == 3
MaxMonth == 2
MaxVals == 2
MaxLongMonths == 13
MaxTicks == 4

(* the step of the clock, in seconds *)
Tick == 1800

(* st.cache_data(ttl=3600) *)
CacheTtl == 3600

(* the request window: 7 days before now to 2 days after *)
PastDays == 7
ForecastDays == 2

SecondsPerHour == 3600

(* generate_radius_points(lat, lon, radius_km=5, step_km=2.5), in tenths of a
   kilometre *)
RadiusKm10 == 50
StepKm10 == 25
SecondsPerDay == 24 * SecondsPerHour
MaxStates == 2

(* tail(12): the months kept by the 12-month table *)
TrailingMonths == 12

(* America/Sao_Paulo is three hours behind UTC *)
UtcOffsetHours == 3

(* The band boundaries of the status card: 0 mm and 2 mm, in hundredths *)
NoneMax == 0
MildMax == 200

---------------------------------------------------------------------------
(* Values *)

\* a parsed timestamp: an hour, or NaT
Ts(h) == [nat |-> FALSE, h |-> h]
NaT == [nat |-> TRUE, h |-> 0]

\* a raw time string of the response: an ISO date-time without offset, or a
\* string that is no date-time
Iso(h) == [k |-> "iso", h |-> h]
BadTime == [k |-> "bad", h |-> 0]
RawTimes == {Iso(h) : h \in 1..MaxTime} \cup {BadTime}

\* a raw precipitation value: a number, or JSON null
Num(v) == [null |-> FALSE, v |-> v]
Null == [null |-> TRUE, v |-> 0]
RawPrecips == {Null, Num(NoneMax), Num(MildMax), Num(MildMax + 1)}

NoRow == [time |-> NaT, precip |-> Null]
NoStatus == [shown |-> FALSE, band |-> "none", latest_precip |-> [nan |-> FALSE, v |-> 0]]

NoCell == [raw |-> Null, numeric |-> TRUE]
NoBands == [done |-> FALSE, rain_emoji |-> "none", old_app |-> "none",
            streamlit_app |-> "none", google |-> "none"]

BoundedSeq(S, n) == UNION {[1..k -> S] : k \in 0..n}

\* the responses the request can give: a failure, a JSON without "hourly",
\* an "hourly" block with both lists, or with one of them lacking
Response(err, hourly, hasT, hasP, times, precips) ==
    [error |-> err, hourly |-> hourly, hasTime |-> hasT, hasPrecip |-> hasP,
     time |-> times, precip |-> precips]

Responses ==
    {Response(TRUE, FALSE, FALSE, FALSE, <<>>, <<>>),
     Response(FALSE, FALSE, FALSE, FALSE, <<>>, <<>>)}
    \cup {Response(FALSE, TRUE, TRUE, TRUE, t, p) :
             <<t, p>> \in {tp \in BoundedSeq(RawTimes, MaxRows)
                                  \X BoundedSeq(RawPrecips, MaxRows) :
                             Len(tp[1]) = Len(tp[2])}}
    \cup {Response(FALSE, TRUE, FALSE, TRUE, <<>>, p) :
             p \in BoundedSeq(RawPrecips, 1)}
    \cup {Response(FALSE, TRUE, TRUE, FALSE, t, <<>>) :
             t \in BoundedSeq(RawTimes, 1)}
    \cup {Response(FALSE, TRUE, FALSE, FALSE, <<>>, <<>>)}

Variants == {"streamlit_app", "old_app", "test_env"}

NoDaily == Response(TRUE, FALSE, FALSE, FALSE, <<>>, <<>>)

\* the cities of the selectbox that the model follows
Cities == {"Rio de Janeiro", "Salvador"}

\* a request window: the days sent as start_date and end_date
NoWindow == [start_date |-> 0, end_date |-> 0]

\* an entry of the cache: the table and the raw response a call returned, the
\* time it was stored and the window it was requested for
NoEntry == [stored |-> FALSE, at |-> 0, df |-> <<>>, raw |-> NoDaily,
            window |-> NoWindow]

NoSplit == [done |-> FALSE, city |-> "none", at |-> 0, mask |-> <<>>]

---------------------------------------------------------------------------
(* pandas helpers *)

\* pd.to_datetime(x, errors="coerce") of one string
ToDatetimeCoerce(s) == IF s.k = "iso" THEN Ts(s.h) ELSE NaT

\* pd.DataFrame({"time": hours, "precip": precip}) raises ValueError when the
\* lists differ in length
SameLength(a, b) == Len(a) = Len(b)

\* the rows of pd.DataFrame({"time": ..., "precip": ...}) with the time column
\* parsed by to_datetime(errors="coerce")
Frame(times, precips) ==
    [i \in 1..Len(times) |->
        [time |-> ToDatetimeCoerce(times[i]), precip |-> precips[i]]]

\* order of sort_values("time"): ascending, NaT last
TimeKeyLE(a, b) == b.nat \/ (~a.nat /\ a.h <= b.h)

Perms(n) == {p \in [1..n -> 1..n] : \A i, j \in 1..n : p[i] = p[j] => i = j}

\* df.sort_values("time"): the default sort is not stable, so rows with equal
\* timestamps come out in any order; NaT rows are put last in their order
SortValuesTime(rows) ==
    {[i \in 1..Len(rows) |-> rows[p[i]]] : p \in
        {q \in Perms(Len(rows)) :
            \A i, j \in 1..Len(rows) : i < j =>
                /\ TimeKeyLE(rows[q[i]].time, rows[q[j]].time)
                /\ (rows[q[i]].time.nat /\ rows[q[j]].time.nat => q[i] < q[j])}}

\* Series > now and Series <= now on a tz-aware column: NaT compares False
TimeGT(t, n) == ~t.nat /\ t.h > n
TimeLE(t, n) == ~t.nat /\ t.h <= n

\* df[mask == b]: the rows whose mask is b, in the order of the table
RECURSIVE FilterUpTo(_, _, _, _)
FilterUpTo(rows, mask, b, n) ==
    IF n = 0 THEN <<>>
    ELSE IF mask[n] = b
         THEN Append(FilterUpTo(rows, mask, b, n - 1), rows[n])
         ELSE FilterUpTo(rows, mask, b, n - 1)

Filter(rows, mask, b) == FilterUpTo(rows, mask, b, Len(rows))

\* df.iloc[-1]
ILocLast(rows) == rows[Len(rows)]

---------------------------------------------------------------------------
(* Intensity bands *)

\* a Python float: a number, or NaN
Float(v) == [nan |-> FALSE, v |-> v]
NaN == [nan |-> TRUE, v |-> 0]

\* value <= c on floats: every comparison with NaN is False
FloatLE(value, c) == ~value.nan /\ value.v <= c

\* rain_emoji with the 2 mm boundary put in the upper band
rain_emoji_strict(value) ==
    IF FloatLE(value, NoneMax) THEN "NONE"
    ELSE IF FloatLE(value, MildMax - 1) THEN "MILD"
    ELSE "STRONG"

\* old_app.py rain_emoji
rain_emoji(value) ==
    IF FloatLE(value, NoneMax) THEN "NONE"
    ELSE IF FloatLE(value, MildMax) THEN "MILD"
    ELSE "STRONG"

\* streamlit_app.py, the if/elif/else of the status card
StatusBand(latest_precip) ==
    IF FloatLE(latest_precip, NoneMax) THEN "NONE"
    ELSE IF FloatLE(latest_precip, MildMax) THEN "MILD"
    ELSE "STRONG"

\* streamlit_app.py: float(x) if pd.notna(x) else 0.0
LatestPrecip(p) == IF p.null THEN Float(0) ELSE Float(p.v)

\* old_app.py: float(x) of a cell of a numeric column, where null is NaN
FloatOfCell(p) == IF p.null THEN NaN ELSE Float(p.v)

\* old_app.py lines 206-211: the status of the latest cell. A column holding
\* only nulls is an object column, its cell is None and float(None) raises.
LatestStatusOld(p, numeric) ==
    IF p.null /\ ~numeric THEN "TypeError" ELSE rain_emoji(FloatOfCell(p))

\* streamlit_app.py lines 276-291: the status of the latest cell
LatestStatusNew(p) == StatusBand(LatestPrecip(p))

\* google_streamlit_app.py lines 222-230, the if/elif/else of the status card
GoogleBand(val) ==
    IF FloatLE(val, NoneMax) THEN "NONE"
    ELSE IF FloatLE(val, MildMax) THEN "MILD"
    ELSE "STRONG"

---------------------------------------------------------------------------
(* streamlit_app.py *)

\* fetch_precip: the exception it raises, "none" if it returns, and the tables
\* it can return. The timestamps of the source carry no offset, so the column
\* is tz-naive after parsing and line 152 localizes it; the hours of the
\* request window are neither ambiguous nor skipped in America/Sao_Paulo, so
\* the except branch of lines 155-157 is not taken.
FetchPrecipRaises(d) ==
    IF d.error \/ ~d.hourly THEN "none"
    ELSE IF ~SameLength(d.time, d.precip) THEN "ValueError"
    ELSE "none"

FetchPrecipTables(d) ==
    IF d.error \/ ~d.hourly THEN {<<>>}
    ELSE SortValuesTime(Frame(d.time, d.precip))

\* the column with the comparison turned round
IsForecastColumn_inverted(rows, colTz, n) ==
    [i \in 1..Len(rows) |-> colTz # "naive" /\ ~TimeGT(rows[i].time, n)]

\* lines 226-229, the column is_forecast: df_hourly["time"] > now, or False
\* throughout when the comparison raises (a tz-naive column)
IsForecastColumn(rows, colTz, n) ==
    [i \in 1..Len(rows) |-> colTz # "naive" /\ TimeGT(rows[i].time, n)]

\* test_env.py lines 119-120: the same column with no try/except
IsForecastEnv(rows, n) == [i \in 1..Len(rows) |-> TimeGT(rows[i].time, n)]

\* the row of the status card: the last observed row, else the last row
LastRow(rows, mask) ==
    IF Filter(rows, mask, FALSE) = <<>> THEN ILocLast(rows)
    ELSE ILocLast(Filter(rows, mask, FALSE))

\* the parts of the state a run of the hourly pipeline does not touch
StatesIdle ==
    /\ state_vals = <<>>
    /\ df_states = <<>>

CacheIdle ==
    /\ clock = 0
    /\ cache = [c \in Cities |-> NoEntry]
    /\ api_up = TRUE
    /\ city = "none"
    /\ requested = FALSE
    /\ window = NoWindow
    /\ served_at = 0
    /\ prev_split = NoSplit

ExtIdle ==
    /\ grid = <<>>
    /\ StatesIdle
    /\ CacheIdle

Init ==
    /\ variant \in Variants
    /\ data \in Responses
    /\ now \in 0..(MaxTime + 1)
    /\ pc = "start"
    /\ df_hourly = <<>>
    /\ tz = "naive"
    /\ is_forecast = <<>>
    /\ df_hist = <<>>
    /\ df_fore = <<>>
    /\ last_row = NoRow
    /\ status = NoStatus
    /\ raised = "none"
    /\ ui = {}
    /\ points = <<>>
    /\ df_radius = <<>>
    /\ daily = NoDaily
    /\ df_monthly = <<>>
    /\ cell = NoCell
    /\ bands = NoBands
    /\ ExtIdle

\* lines 214-216: fetch_precip_cached -> fetch_precip
FetchPrecip ==
    /\ UNCHANGED <<googleVars, monthVars, classVars, extVars>>
    /\ variant = "streamlit_app"
    /\ pc = "start"
    /\ IF FetchPrecipRaises(data) # "none"
       THEN /\ raised' = FetchPrecipRaises(data)
            /\ pc' = "fetch_raised"
            /\ UNCHANGED <<df_hourly, tz>>
       ELSE /\ df_hourly' \in FetchPrecipTables(data)
            /\ tz' = "BRT"
            /\ pc' = "fetched"
            /\ UNCHANGED raised
    /\ UNCHANGED <<variant, data, now, is_forecast, df_hist, df_fore,
                   last_row, status, ui>>

\* lines 221-257: the warning, or the split and the chart
HourlyPlot ==
    /\ UNCHANGED <<googleVars, monthVars, classVars, extVars>>
    /\ variant = "streamlit_app"
    /\ pc = "fetched"
    /\ IF df_hourly = <<>>
       THEN /\ ui' = ui \cup {"no_data_warning"}
            /\ UNCHANGED <<is_forecast, df_hist, df_fore>>
       ELSE /\ is_forecast' = IsForecastColumn(df_hourly, tz, now)
            /\ df_hist' = Filter(df_hourly, is_forecast', FALSE)
            /\ df_fore' = Filter(df_hourly, is_forecast', TRUE)
            /\ ui' = ui \cup {"chart"}
    /\ pc' = "plotted"
    /\ UNCHANGED <<variant, data, now, df_hourly, tz, last_row, status, raised>>

\* lines 269-302: the status card
StatusCard ==
    /\ UNCHANGED <<googleVars, monthVars, classVars, extVars>>
    /\ variant = "streamlit_app"
    /\ pc = "plotted"
    /\ IF df_hourly = <<>>
       THEN UNCHANGED <<last_row, status, ui>>
       ELSE /\ last_row' = LastRow(df_hourly, is_forecast)
            /\ status' = [shown |-> TRUE,
                          band |-> StatusBand(LatestPrecip(last_row'.precip)),
                          latest_precip |-> LatestPrecip(last_row'.precip)]
            /\ ui' = ui \cup {"status_card"}
    /\ pc' = "done"
    /\ UNCHANGED <<variant, data, now, df_hourly, tz, is_forecast, df_hist,
                   df_fore, raised>>

---------------------------------------------------------------------------
(* old_app.py *)

\* pd.to_datetime(x) with the default errors="raise"
CanParse(times) == \A i \in 1..Len(times) : times[i].k = "iso"

\* get_hourly_precip: the exception it raises, "none" if it returns
GetHourlyPrecipRaises(d) ==
    IF d.error THEN "RequestException"
    ELSE IF ~d.hourly THEN "KeyError"
    ELSE IF d.hasTime /\ d.hasPrecip /\ ~SameLength(d.time, d.precip)
         THEN "ValueError"
    ELSE IF ~d.hasTime THEN "KeyError"
    ELSE IF ~CanParse(d.time) THEN "ValueError"
    ELSE "none"

\* the table of get_hourly_precip: the rows as the source gave them
GetHourlyPrecipTable(d) ==
    [i \in 1..Len(d.time) |->
        [time |-> ToDatetimeCoerce(d.time[i]),
         precip |-> IF d.hasPrecip THEN d.precip[i] ELSE Null]]

\* lines 195-196
GetHourlyPrecip ==
    /\ UNCHANGED <<googleVars, monthVars, classVars, extVars>>
    /\ variant = "old_app"
    /\ pc = "start"
    /\ IF GetHourlyPrecipRaises(data) # "none"
       THEN /\ raised' = GetHourlyPrecipRaises(data)
            /\ pc' = "fetch_raised"
            /\ UNCHANGED <<df_hourly, tz>>
       ELSE /\ df_hourly' = GetHourlyPrecipTable(data)
            /\ tz' = "naive"
            /\ pc' = "fetched"
            /\ UNCHANGED raised
    /\ UNCHANGED <<variant, data, now, is_forecast, df_hist, df_fore,
                   last_row, status, ui>>

\* the column df_hourly["time"] <= now_br
HistMask(rows, n) == [i \in 1..Len(rows) |-> TimeLE(rows[i].time, n)]

\* lines 201-211: what the split and the status raise, "none" if they pass.
\* A tz-naive column cannot be compared with the tz-aware now_br.
SplitOldRaises(d, rows, colTz, n) ==
    IF colTz = "naive" THEN "TypeError"
    ELSE IF Filter(rows, HistMask(rows, n), TRUE) = <<>> /\ rows = <<>>
         THEN "IndexError"
    ELSE IF ~d.hasPrecip THEN "KeyError"
    ELSE IF \A i \in 1..Len(rows) : rows[i].precip.null THEN "TypeError"
    ELSE "none"

LastRowOld(rows, n) ==
    IF Filter(rows, HistMask(rows, n), TRUE) # <<>>
    THEN ILocLast(Filter(rows, HistMask(rows, n), TRUE))
    ELSE ILocLast(rows)

\* lines 201-214: split, latest_precip, rain_emoji, subheader
SplitAndStatus ==
    /\ UNCHANGED <<googleVars, monthVars, classVars, extVars>>
    /\ variant = "old_app"
    /\ pc = "fetched"
    /\ IF SplitOldRaises(data, df_hourly, tz, now) # "none"
       THEN /\ raised' = SplitOldRaises(data, df_hourly, tz, now)
            /\ pc' = "status_raised"
            /\ UNCHANGED <<is_forecast, df_hist, df_fore, last_row, status, ui>>
       ELSE /\ is_forecast' = [i \in 1..Len(df_hourly) |->
                                  ~HistMask(df_hourly, now)[i]]
            /\ df_hist' = Filter(df_hourly, HistMask(df_hourly, now), TRUE)
            /\ df_fore' = Filter(df_hourly, HistMask(df_hourly, now), FALSE)
            /\ last_row' = LastRowOld(df_hourly, now)
            /\ status' = [shown |-> TRUE,
                          band |-> rain_emoji(FloatOfCell(last_row'.precip)),
                          latest_precip |-> FloatOfCell(last_row'.precip)]
            /\ ui' = ui \cup {"status_card", "chart"}
            /\ pc' = "done"
            /\ UNCHANGED raised
    /\ UNCHANGED <<variant, data, now, df_hourly, tz>>

---------------------------------------------------------------------------
(* test_env.py *)

\* fetch_precip: the exception it raises, "none" if it returns
FetchPrecipEnvRaises(d) ==
    IF d.error THEN "RequestException"
    ELSE IF ~d.hourly \/ ~d.hasTime \/ ~d.hasPrecip THEN "KeyError"
    ELSE IF ~SameLength(d.time, d.precip) THEN "ValueError"
    ELSE IF ~CanParse(d.time) THEN "ValueError"
    ELSE "none"

\* lines 110-111
FetchPrecipEnv ==
    /\ UNCHANGED <<googleVars, monthVars, classVars, extVars>>
    /\ variant = "test_env"
    /\ pc = "start"
    /\ IF FetchPrecipEnvRaises(data) # "none"
       THEN /\ raised' = FetchPrecipEnvRaises(data)
            /\ pc' = "fetch_raised"
            /\ UNCHANGED <<df_hourly, tz>>
       ELSE /\ df_hourly' \in SortValuesTime(Frame(data.time, data.precip))
            /\ tz' = "BRT"
            /\ pc' = "fetched"
            /\ UNCHANGED raised
    /\ UNCHANGED <<variant, data, now, is_forecast, df_hist, df_fore,
                   last_row, status, ui>>

\* lines 119-158: the split and the chart
SplitEnv ==
    /\ UNCHANGED <<googleVars, monthVars, classVars, extVars>>
    /\ variant = "test_env"
    /\ pc = "fetched"
    /\ is_forecast' = IsForecastEnv(df_hourly, now)
    /\ df_hist' = Filter(df_hourly, is_forecast', FALSE)
    /\ df_fore' = Filter(df_hourly, is_forecast', TRUE)
    /\ ui' = ui \cup {"chart"}
    /\ pc' = "done"
    /\ UNCHANGED <<variant, data, now, df_hourly, tz, last_row, status, raised>>

Next ==
    \/ FetchPrecip
    \/ HourlyPlot
    \/ StatusCard
    \/ GetHourlyPrecip
    \/ SplitAndStatus
    \/ FetchPrecipEnv
    \/ SplitEnv

Spec == Init /\ [][Next]_vars

---------------------------------------------------------------------------
(* The band functions on their own: every caller applied to one cell *)

Cells ==
    {[raw |-> Num(v), numeric |-> TRUE] : v \in (0 - MaxValue)..MaxValue}
    \cup {[raw |-> Null, numeric |-> b] : b \in BOOLEAN}

Idle ==
    /\ variant = "none"
    /\ data = Response(TRUE, FALSE, FALSE, FALSE, <<>>, <<>>)
    /\ now = 0
    /\ pc = "idle"
    /\ df_hourly = <<>>
    /\ tz = "naive"
    /\ is_forecast = <<>>
    /\ df_hist = <<>>
    /\ df_fore = <<>>
    /\ last_row = NoRow
    /\ status = NoStatus
    /\ raised = "none"
    /\ ui = {}

InitClassify ==
    /\ Idle
    /\ points = <<>>
    /\ df_radius = <<>>
    /\ daily = NoDaily
    /\ df_monthly = <<>>
    /\ cell \in Cells
    /\ bands = NoBands
    /\ ExtIdle

Classify ==
    /\ ~bands.done
    /\ bands' = [done |-> TRUE,
                 rain_emoji |-> rain_emoji(FloatOfCell(cell.raw)),
                 old_app |-> LatestStatusOld(cell.raw, cell.numeric),
                 streamlit_app |-> LatestStatusNew(cell.raw),
                 google |-> GoogleBand(FloatOfCell(cell.raw))]
    /\ UNCHANGED <<pipeVars, googleVars, monthVars, cell, extVars>>

NextClassify == Classify

SpecClassify == InitClassify /\ [][NextClassify]_vars

---------------------------------------------------------------------------
(* google_streamlit_app.py *)

\* an entry of "forecastHours": forecastTime is a UTC instant, the amount may
\* be absent from the entry (Null here)
ForecastHours ==
    [forecastTime : {h + UtcOffsetHours : h \in 1..MaxTime},
     amount : {Null, Num(NoneMax), Num(MildMax + 1)}]

\* what one sampling point answers: a failure, a JSON without
\* "forecastHours", or the list of hours
PointResponses ==
    {[error |-> TRUE, hasHours |-> FALSE, hours |-> <<>>],
     [error |-> FALSE, hasHours |-> FALSE, hours |-> <<>>]}
    \cup {[error |-> FALSE, hasHours |-> TRUE, hours |-> hs] :
             hs \in BoundedSeq(ForecastHours, MaxHours)}

\* dt.tz_convert("America/Sao_Paulo") of a UTC instant: the wall-clock hour
TzConvertBRT(utc) == Ts(utc - UtcOffsetHours)

\* h.get("precipitation", {}).get("amount", {}).get("value", 0.0)
AmountValue(a) == IF a.null THEN Num(0) ELSE a

\* fetch_google_hourly_precip: df["time"] of a frame built from no rows
\* raises KeyError
FetchGoogleRaises(r) ==
    IF r.error \/ ~r.hasHours THEN "none"
    ELSE IF r.hours = <<>> THEN "KeyError"
    ELSE "none"

FetchGoogleTable(r) ==
    IF r.error \/ ~r.hasHours THEN <<>>
    ELSE [i \in 1..Len(r.hours) |->
            [time |-> TzConvertBRT(r.hours[i].forecastTime),
             precip |-> AmountValue(r.hours[i].amount)]]

\* pd.concat(dfs) of the tables of the points that returned rows
RECURSIVE ConcatTables(_, _)
ConcatTables(resps, n) ==
    IF n = 0 THEN <<>>
    ELSE ConcatTables(resps, n - 1) \o FetchGoogleTable(resps[n])

RECURSIVE SortedSeqOf(_)
SortedSeqOf(S) ==
    IF S = {} THEN <<>>
    ELSE LET m == CHOOSE x \in S : \A y \in S : x <= y
         IN <<m>> \o SortedSeqOf(S \ {m})

MaxOf(S) == CHOOSE x \in S : \A y \in S : y <= x

\* groupby("time")["precip"].max() ... sort_values("time"): one row per
\* timestamp, holding the maximum; the column is renamed max_precip
GroupMaxByTime(rows) ==
    LET hours == SortedSeqOf({rows[i].time.h : i \in 1..Len(rows)})
    IN [k \in 1..Len(hours) |->
          [time |-> Ts(hours[k]),
           precip |-> Num(MaxOf({rows[i].precip.v :
                                   i \in {j \in 1..Len(rows) :
                                            rows[j].time.h = hours[k]}}))]]

\* generate_radius_points: the points of the square grid i, j in
\* -steps..steps, row by row, as offsets to the north and to the east of the
\* centre in tenths of a kilometre (i * step_km * lat_km degrees of latitude
\* are i * step_km kilometres, and likewise for the longitude)
RadiusSteps == RadiusKm10 \div StepKm10

generate_radius_points ==
    [k \in 1..((2 * RadiusSteps + 1) * (2 * RadiusSteps + 1)) |->
        [north |-> (((k - 1) \div (2 * RadiusSteps + 1)) - RadiusSteps) * StepKm10,
         east |-> (((k - 1) % (2 * RadiusSteps + 1)) - RadiusSteps) * StepKm10]]

\* fetch_max_precip_radius; of the sampling points the first MaxPoints are
\* followed, the others are taken to give no table
FetchMaxPrecipRadiusRaises(resps) ==
    IF \E i \in 1..Len(resps) : FetchGoogleRaises(resps[i]) # "none"
    THEN "KeyError" ELSE "none"

FetchMaxPrecipRadiusTable(resps) ==
    GroupMaxByTime(ConcatTables(resps, Len(resps)))

InitGoogle ==
    /\ variant = "google_streamlit_app"
    /\ data = Response(TRUE, FALSE, FALSE, FALSE, <<>>, <<>>)
    /\ now \in 0..(MaxTime + 1)
    /\ pc = "start"
    /\ df_hourly = <<>>
    /\ tz = "naive"
    /\ is_forecast = <<>>
    /\ df_hist = <<>>
    /\ df_fore = <<>>
    /\ last_row = NoRow
    /\ status = NoStatus
    /\ raised = "none"
    /\ ui = {}
    /\ points \in [1..MaxPoints -> PointResponses]
    /\ df_radius = <<>>
    /\ daily = NoDaily
    /\ df_monthly = <<>>
    /\ cell = NoCell
    /\ bands = NoBands
    /\ ExtIdle

\* lines 186-187: fetch_max_precip_radius_cached -> fetch_max_precip_radius
FetchMaxPrecipRadius ==
    /\ variant = "google_streamlit_app"
    /\ pc = "start"
    /\ grid' = generate_radius_points
    /\ IF FetchMaxPrecipRadiusRaises(points) # "none"
       THEN /\ raised' = FetchMaxPrecipRadiusRaises(points)
            /\ pc' = "fetch_raised"
            /\ UNCHANGED df_radius
       ELSE /\ df_radius' = FetchMaxPrecipRadiusTable(points)
            /\ pc' = "fetched"
            /\ UNCHANGED raised
    /\ UNCHANGED <<variant, data, now, df_hourly, tz, is_forecast, df_hist,
                   df_fore, last_row, status, ui, points, monthVars, classVars, extVars>>

\* lines 192-212: the warning or the chart
RadiusPlot ==
    /\ variant = "google_streamlit_app"
    /\ pc = "fetched"
    /\ ui' = ui \cup {IF df_radius = <<>> THEN "no_data_warning" ELSE "chart"}
    /\ pc' = "plotted"
    /\ UNCHANGED <<variant, data, now, df_hourly, tz, is_forecast, df_hist,
                   df_fore, last_row, status, raised, googleVars, monthVars,
                   classVars, extVars>>

\* lines 217-241: the status card, from the last row of the table
RadiusStatusCard ==
    /\ variant = "google_streamlit_app"
    /\ pc = "plotted"
    /\ IF df_radius = <<>>
       THEN UNCHANGED <<last_row, status, ui>>
       ELSE /\ last_row' = ILocLast(df_radius)
            /\ status' = [shown |-> TRUE,
                          band |-> GoogleBand(Float(last_row'.precip.v)),
                          latest_precip |-> Float(last_row'.precip.v)]
            /\ ui' = ui \cup {"status_card"}
    /\ pc' = "done"
    /\ UNCHANGED <<variant, data, now, df_hourly, tz, is_forecast, df_hist,
                   df_fore, raised, googleVars, monthVars, classVars, extVars>>

NextGoogle ==
    \/ FetchMaxPrecipRadius
    \/ RadiusPlot
    \/ RadiusStatusCard

SpecGoogle == InitGoogle /\ [][NextGoogle]_vars

---------------------------------------------------------------------------
(* The 12-month table *)

\* a parsed date: month m (counted from some January) and day d, or NaT
Date(m, d) == [nat |-> FALSE, m |-> m, d |-> d]
NaTDate == [nat |-> TRUE, m |-> 0, d |-> 0]

\* a raw date string of the response, or a string that is no date
IsoDate(m, d) == [k |-> "iso", m |-> m, d |-> d]
BadDate == [k |-> "bad", m |-> 0, d |-> 0]
RawDates == {IsoDate(m, d) : m \in 1..MaxMonth, d \in {1, 15}} \cup {BadDate}

\* daily values: null, 1 mm, 2 mm
RawSums == {Null, Num(100), Num(200)}

\* responses covering a year and more: one sample on the 15th of each of n
\* months, 2 mm in the first month and 1 mm in the others, listed oldest
\* first or newest first
LongTimes(n, asc) ==
    [i \in 1..n |-> IsoDate(IF asc THEN i ELSE n + 1 - i, 15)]

LongSums(n, asc) ==
    [i \in 1..n |-> Num(IF (IF asc THEN i ELSE n + 1 - i) = 1 THEN 200 ELSE 100)]

LongResponses ==
    {Response(FALSE, TRUE, TRUE, TRUE, LongTimes(n, asc), LongSums(n, asc)) :
        n \in TrailingMonths..MaxLongMonths, asc \in BOOLEAN}

\* the responses of the monthly request, shaped like the hourly ones: the
\* block is "daily" (streamlit_app.py, test_env.py) or "monthly" (old_app.py)
DailyResponses ==
    {Response(TRUE, FALSE, FALSE, FALSE, <<>>, <<>>),
     Response(FALSE, FALSE, FALSE, FALSE, <<>>, <<>>)}
    \cup {Response(FALSE, TRUE, TRUE, TRUE, t, p) :
             <<t, p>> \in {tp \in BoundedSeq(RawDates, MaxDaily)
                                  \X BoundedSeq(RawSums, MaxDaily) :
                             Len(tp[1]) = Len(tp[2])}}
    \cup {Response(FALSE, TRUE, FALSE, TRUE, <<>>, p) :
             p \in BoundedSeq(RawSums, 1)}
    \cup {Response(FALSE, TRUE, TRUE, FALSE, t, <<>>) :
             t \in BoundedSeq(RawDates, 1)}
    \cup LongResponses

\* pd.to_datetime(x, errors="coerce") of one date string
ToDateCoerce(s) == IF s.k = "iso" THEN Date(s.m, s.d) ELSE NaTDate

\* the month column keyed by the date itself, not by its month
ToMonthStart_keepDay(t) == t

\* dt.to_period("M").dt.to_timestamp(): the first day of the month
ToMonthStart(t) == IF t.nat THEN NaTDate ELSE Date(t.m, 1)

\* the "month" column of fetch_monthly_precip
MonthColumn(dates) ==
    [i \in 1..Len(dates) |-> ToMonthStart(ToDateCoerce(dates[i]))]

\* the value of the first row of the group, a null read as 0
SumRows_first(precips, idx) ==
    IF idx = {} THEN 0
    ELSE LET i == CHOOSE x \in idx : \A y \in idx : x <= y
         IN IF precips[i].null THEN 0 ELSE precips[i].v

\* sum() of the values of the rows in idx; a null is skipped
RECURSIVE SumRows(_, _)
SumRows(precips, idx) ==
    IF idx = {} THEN 0
    ELSE LET i == CHOOSE x \in idx : TRUE
         IN (IF precips[i].null THEN 0 ELSE precips[i].v)
            + SumRows(precips, idx \ {i})

\* df.head(n)
Tail12_head(rows) ==
    IF Len(rows) <= TrailingMonths THEN rows
    ELSE SubSeq(rows, 1, TrailingMonths)

\* df.tail(n)
Tail12(rows) ==
    IF Len(rows) <= TrailingMonths THEN rows
    ELSE SubSeq(rows, Len(rows) - TrailingMonths + 1, Len(rows))

\* month order: by month, then day
DateKey(t) == 100 * t.m + t.d

\* groupby("month", as_index=False)["precip"].sum().sort_values("month")
\* .tail(12): NaT keys are dropped by groupby
GroupSumByMonth(months, precips) ==
    LET keys == SortedSeqOf({DateKey(months[i]) :
                               i \in {j \in 1..Len(months) : ~months[j].nat}})
        keyMonth(k) == CHOOSE t \in {months[i] : i \in 1..Len(months)} :
                          ~t.nat /\ DateKey(t) = k
    IN Tail12([n \in 1..Len(keys) |->
                 [month |-> keyMonth(keys[n]),
                  precip |-> Num(SumRows(precips,
                                {i \in 1..Len(months) :
                                   ~months[i].nat
                                   /\ DateKey(months[i]) = keys[n]}))]])

\* streamlit_app.py fetch_monthly_precip
FetchMonthlyRaises(d) ==
    IF d.error \/ ~d.hourly THEN "none"
    ELSE IF ~SameLength(d.time, d.precip) THEN "ValueError"
    ELSE "none"

FetchMonthlyTable(d) ==
    IF d.error \/ ~d.hourly THEN <<>>
    ELSE GroupSumByMonth(MonthColumn(d.time), d.precip)

\* test_env.py fetch_monthly_precip
FetchMonthlyEnvRaises(d) ==
    IF d.error THEN "RequestException"
    ELSE IF ~d.hourly \/ d.time = <<>> THEN "none"
    ELSE IF ~SameLength(d.time, d.precip) THEN "ValueError"
    ELSE IF \E i \in 1..Len(d.time) : d.time[i].k # "iso" THEN "ValueError"
    ELSE "none"

FetchMonthlyEnvTable(d) ==
    IF ~d.hourly \/ d.time = <<>> THEN <<>>
    ELSE GroupSumByMonth(MonthColumn(d.time), d.precip)

\* old_app.py get_monthly_precip: no grouping, the source's entries sorted by
\* their own timestamp (rows with equal timestamps in any order)
GetMonthlyRaises(d) ==
    IF d.error THEN "RequestException"
    ELSE IF ~d.hourly \/ d.time = <<>> THEN "none"
    ELSE IF \E i \in 1..Len(d.time) : d.time[i].k # "iso" THEN "ValueError"
    ELSE IF ~SameLength(d.time, d.precip) THEN "ValueError"
    ELSE "none"

\* the orders in which sort_values can leave the rows idx: ascending by key,
\* rows with equal keys in any order
RECURSIVE SortedOrders(_, _)
SortedOrders(idx, key) ==
    IF idx = {} THEN {<<>>}
    ELSE UNION {{<<i>> \o rest : rest \in SortedOrders(idx \ {i}, key)} :
                   i \in {j \in idx : \A k \in idx : key[j] <= key[k]}}

GetMonthlyTables(d) ==
    IF ~d.hourly \/ d.time = <<>> THEN {<<>>}
    ELSE {Tail12([i \in 1..Len(d.time) |->
                    [month |-> ToDateCoerce(d.time[o[i]]),
                     precip |-> d.precip[o[i]]]]) :
            o \in SortedOrders(1..Len(d.time),
                               [i \in 1..Len(d.time) |->
                                   DateKey(ToDateCoerce(d.time[i]))])}

InitMonthly ==
    /\ variant \in Variants
    /\ data = Response(TRUE, FALSE, FALSE, FALSE, <<>>, <<>>)
    /\ now = 0
    /\ pc = "start"
    /\ df_hourly = <<>>
    /\ tz = "naive"
    /\ is_forecast = <<>>
    /\ df_hist = <<>>
    /\ df_fore = <<>>
    /\ last_row = NoRow
    /\ status = NoStatus
    /\ raised = "none"
    /\ ui = {}
    /\ points = <<>>
    /\ df_radius = <<>>
    /\ daily \in DailyResponses
    /\ df_monthly = <<>>
    /\ cell = NoCell
    /\ bands = NoBands
    /\ ExtIdle

MonthlyFetch(v, raises, tables) ==
    /\ variant = v
    /\ pc = "start"
    /\ IF raises # "none"
       THEN /\ raised' = raises
            /\ pc' = "fetch_raised"
            /\ UNCHANGED df_monthly
       ELSE /\ df_monthly' \in tables
            /\ pc' = "fetched"
            /\ UNCHANGED raised
    /\ UNCHANGED <<variant, data, now, df_hourly, tz, is_forecast, df_hist,
                   df_fore, last_row, status, ui, googleVars, daily, classVars, extVars>>

\* streamlit_app.py lines 218-219
FetchMonthlyPrecip ==
    MonthlyFetch("streamlit_app", FetchMonthlyRaises(daily),
                 {FetchMonthlyTable(daily)})

\* test_env.py lines 113-114
FetchMonthlyPrecipEnv ==
    MonthlyFetch("test_env", FetchMonthlyEnvRaises(daily),
                 {FetchMonthlyEnvTable(daily)})

\* old_app.py lines 198-199
GetMonthlyPrecip ==
    MonthlyFetch("old_app", GetMonthlyRaises(daily), GetMonthlyTables(daily))

\* the bar chart of the table, or the no-data note
MonthlyPlot ==
    /\ pc = "fetched"
    /\ ui' = ui \cup {IF df_monthly = <<>> THEN "no_monthly_info"
                      ELSE "monthly_chart"}
    /\ pc' = "done"
    /\ UNCHANGED <<variant, data, now, df_hourly, tz, is_forecast, df_hist,
                   df_fore, last_row, status, raised, googleVars, monthVars,
                   classVars, extVars>>

NextMonthly ==
    \/ FetchMonthlyPrecip
    \/ FetchMonthlyPrecipEnv
    \/ GetMonthlyPrecip
    \/ MonthlyPlot

SpecMonthly == InitMonthly /\ [][NextMonthly]_vars

---------------------------------------------------------------------------
(* old_app.py: the per-state totals of the heatmap *)

\* what the daily request of one state capital answers: a failure, a JSON
\* without "daily" or "precipitation_sum", or the list of daily values
StateResponses ==
    {[error |-> TRUE, hasDaily |-> FALSE, vals |-> <<>>],
     [error |-> FALSE, hasDaily |-> FALSE, vals |-> <<>>]}
    \cup {[error |-> FALSE, hasDaily |-> TRUE, vals |-> v] :
             v \in BoundedSeq(RawSums, MaxVals)}

\* Python's sum(vals): 0 + vals[0] + ..., which raises TypeError on None
PySumRaises(vals) == \E i \in 1..Len(vals) : vals[i].null

RECURSIVE PySumUpTo(_, _)
PySumUpTo(vals, n) ==
    IF n = 0 THEN 0 ELSE PySumUpTo(vals, n - 1) + vals[n].v

PySum(vals) == PySumUpTo(vals, Len(vals))

\* lines 154-156 for one state: the exception raised, "none" otherwise
StateTotalRaises(r) ==
    IF r.error THEN "RequestException"
    ELSE IF r.vals # <<>> /\ PySumRaises(r.vals) THEN "TypeError"
    ELSE "none"

\* total = float(sum(vals)) if vals else 0.0
StateTotal(r) == IF r.vals # <<>> THEN Float(PySum(r.vals)) ELSE Float(0)

\* get_state_precip: the first state whose iteration raises ends the call
GetStatePrecipRaises(resps) ==
    IF \E i \in 1..Len(resps) : StateTotalRaises(resps[i]) # "none"
    THEN StateTotalRaises(resps[CHOOSE i \in 1..Len(resps) :
                                   /\ StateTotalRaises(resps[i]) # "none"
                                   /\ \A j \in 1..(i - 1) :
                                         StateTotalRaises(resps[j]) = "none"])
    ELSE "none"

GetStatePrecipTable(resps) ==
    [i \in 1..Len(resps) |-> [state |-> i, precip |-> StateTotal(resps[i])]]

InitStates ==
    /\ variant = "old_app"
    /\ data = Response(TRUE, FALSE, FALSE, FALSE, <<>>, <<>>)
    /\ now = 0
    /\ pc = "start"
    /\ df_hourly = <<>>
    /\ tz = "naive"
    /\ is_forecast = <<>>
    /\ df_hist = <<>>
    /\ df_fore = <<>>
    /\ last_row = NoRow
    /\ status = NoStatus
    /\ raised = "none"
    /\ ui = {}
    /\ points = <<>>
    /\ df_radius = <<>>
    /\ grid = <<>>
    /\ daily = NoDaily
    /\ df_monthly = <<>>
    /\ cell = NoCell
    /\ bands = NoBands
    /\ state_vals \in [1..MaxStates -> StateResponses]
    /\ df_states = <<>>
    /\ CacheIdle

\* lines 272-277: build_brazil_heatmap -> get_state_precip, then the map
BuildBrazilHeatmap ==
    /\ variant = "old_app"
    /\ pc = "start"
    /\ IF GetStatePrecipRaises(state_vals) # "none"
       THEN /\ raised' = GetStatePrecipRaises(state_vals)
            /\ pc' = "fetch_raised"
            /\ UNCHANGED <<df_states, ui>>
       ELSE /\ df_states' = GetStatePrecipTable(state_vals)
            /\ ui' = ui \cup {"heatmap"}
            /\ pc' = "done"
            /\ UNCHANGED raised
    /\ UNCHANGED <<variant, data, now, df_hourly, tz, is_forecast, df_hist,
                   df_fore, last_row, status, googleVars, monthVars, classVars,
                   state_vals, cacheVars>>

NextStates == BuildBrazilHeatmap

SpecStates == InitStates /\ [][NextStates]_vars

---------------------------------------------------------------------------
(* The cached hourly fetch over successive reruns of the script *)

\* the runs start at 23:00 of day 0, so that midnight passes within a few
\* steps of the clock
StartClock == SecondsPerDay - 2 * Tick

\* datetime.now(BR_TZ), in whole hours: the samples lie on whole hours, so a
\* sample is later than now iff its hour is greater than the hour of now
NowOf(t) == t \div SecondsPerHour

\* strftime("%Y-%m-%d"): the day of an instant given in hours
DayOf(n) == n \div 24

\* start_date and end_date of the request made at now = n
RequestWindow(n) ==
    [start_date |-> DayOf(n) - PastDays, end_date |-> DayOf(n) + ForecastDays]

\* the hours of the answer that the model follows: the two hours after the
\* first run and the last hour of the requested window
FirstHour == NowOf(StartClock) + 1

ApiResponse(up, w) ==
    IF ~up THEN Response(TRUE, FALSE, FALSE, FALSE, <<>>, <<>>)
    ELSE Response(FALSE, TRUE, TRUE, TRUE,
                  <<Iso(FirstHour), Iso(FirstHour + 1),
                    Iso(24 * (w.end_date + 1) - 1)>>,
                  <<Num(NoneMax), Num(MildMax), Num(MildMax + 1)>>)

\* the scripts whose hourly fetch goes through st.cache_data
CachedVariants == {"streamlit_app", "old_app"}

\* whether st.cache_data serves the entry and retries a stored failure
CacheFresh_retryErrors(v, e, t) ==
    /\ e.stored
    /\ ~e.raw.error
    /\ v # "old_app" => t - e.at < CacheTtl

\* whether st.cache_data serves the entry e at time t: it is stored and, where
\* the decorator gives a ttl, younger than the ttl; old_app.py gives none
CacheFresh(v, e, t) ==
    /\ e.stored
    /\ v # "old_app" => t - e.at < CacheTtl

Entry(t, table, raw, w) ==
    [stored |-> TRUE, at |-> t, df |-> table, raw |-> raw, window |-> w]

InitCache ==
    /\ variant \in CachedVariants
    /\ data = NoDaily
    /\ now = NowOf(StartClock)
    /\ pc = "idle"
    /\ df_hourly = <<>>
    /\ tz = "naive"
    /\ is_forecast = <<>>
    /\ df_hist = <<>>
    /\ df_fore = <<>>
    /\ last_row = NoRow
    /\ status = NoStatus
    /\ raised = "none"
    /\ ui = {}
    /\ points = <<>>
    /\ df_radius = <<>>
    /\ grid = <<>>
    /\ daily = NoDaily
    /\ df_monthly = <<>>
    /\ cell = NoCell
    /\ bands = NoBands
    /\ StatesIdle
    /\ clock = StartClock
    /\ cache = [c \in Cities |-> NoEntry]
    /\ api_up \in BOOLEAN
    /\ city = "none"
    /\ requested = FALSE
    /\ window = NoWindow
    /\ served_at = 0
    /\ prev_split = NoSplit

notCacheRun == <<googleVars, monthVars, classVars, stateVars>>

\* time passes between two runs
ClockTick ==
    /\ pc = "idle"
    /\ clock < StartClock + MaxTicks * Tick
    /\ clock' = clock + Tick
    /\ UNCHANGED <<pipeVars, notCacheRun, cache, api_up, city, requested,
                   window, served_at, prev_split>>

\* the source starts or stops answering
ApiChanges ==
    /\ pc = "idle"
    /\ api_up' = ~api_up
    /\ UNCHANGED <<pipeVars, notCacheRun, clock, cache, city, requested,
                   window, served_at, prev_split>>

\* a rerun of the script: the selectbox gives the city
Rerun ==
    /\ pc = "idle"
    /\ city' \in Cities
    /\ now' = NowOf(clock)
    /\ pc' = "start"
    /\ UNCHANGED <<variant, data, df_hourly, tz, is_forecast, df_hist, df_fore,
                   last_row, status, raised, ui, notCacheRun, clock, cache,
                   api_up, requested, window, served_at, prev_split>>

\* streamlit_app.py lines 214-216: fetch_precip_cached(lat, lon, city) returns
\* the stored pair when the entry is fresh, else calls fetch_precip and
\* stores what it returns
FetchPrecipCached ==
    /\ variant = "streamlit_app"
    /\ pc = "start"
    /\ IF CacheFresh(variant, cache[city], clock)
       THEN /\ df_hourly' = cache[city].df
            /\ data' = cache[city].raw
            /\ window' = cache[city].window
            /\ served_at' = cache[city].at
            /\ requested' = FALSE
            /\ tz' = "BRT"
            /\ pc' = "fetched"
            /\ UNCHANGED <<cache, raised>>
       ELSE LET d == ApiResponse(api_up, RequestWindow(now))
            IN /\ requested' = TRUE
               /\ data' = d
               /\ IF FetchPrecipRaises(d) # "none"
                  THEN /\ raised' = FetchPrecipRaises(d)
                       /\ pc' = "fetch_raised"
                       /\ UNCHANGED <<df_hourly, tz, cache, window, served_at>>
                  ELSE /\ df_hourly' \in FetchPrecipTables(d)
                       /\ cache' = [cache EXCEPT ![city] =
                                      Entry(clock, df_hourly', d,
                                            RequestWindow(now))]
                       /\ window' = RequestWindow(now)
                       /\ served_at' = clock
                       /\ tz' = "BRT"
                       /\ pc' = "fetched"
                       /\ UNCHANGED raised
    /\ UNCHANGED <<variant, now, is_forecast, df_hist, df_fore, last_row,
                   status, ui, notCacheRun, clock, api_up, city, prev_split>>

\* old_app.py lines 195-196: get_hourly_precip under st.cache_data without
\* ttl; a call that raises stores nothing
GetHourlyPrecipCached ==
    /\ variant = "old_app"
    /\ pc = "start"
    /\ IF CacheFresh(variant, cache[city], clock)
       THEN /\ df_hourly' = cache[city].df
            /\ data' = cache[city].raw
            /\ window' = cache[city].window
            /\ served_at' = cache[city].at
            /\ requested' = FALSE
            /\ tz' = "naive"
            /\ pc' = "fetched"
            /\ UNCHANGED <<cache, raised>>
       ELSE LET d == ApiResponse(api_up, RequestWindow(now))
            IN /\ requested' = TRUE
               /\ data' = d
               /\ IF GetHourlyPrecipRaises(d) # "none"
                  THEN /\ raised' = GetHourlyPrecipRaises(d)
                       /\ pc' = "fetch_raised"
                       /\ UNCHANGED <<df_hourly, tz, cache, window, served_at>>
                  ELSE /\ df_hourly' = GetHourlyPrecipTable(d)
                       /\ cache' = [cache EXCEPT ![city] =
                                      Entry(clock, df_hourly', d,
                                            RequestWindow(now))]
                       /\ window' = RequestWindow(now)
                       /\ served_at' = clock
                       /\ tz' = "naive"
                       /\ pc' = "fetched"
                       /\ UNCHANGED raised
    /\ UNCHANGED <<variant, now, is_forecast, df_hist, df_fore, last_row,
                   status, ui, notCacheRun, clock, api_up, city, prev_split>>

\* the script has run to its end, or an exception ended it; the next run
\* starts from fresh script variables
EndRun ==
    /\ pc \in {"done", "fetch_raised", "status_raised"}
    /\ prev_split' = IF "chart" \in ui
                     THEN [done |-> TRUE, city |-> city, at |-> served_at,
                           mask |-> is_forecast]
                     ELSE NoSplit
    /\ pc' = "idle"
    /\ data' = NoDaily
    /\ df_hourly' = <<>>
    /\ tz' = "naive"
    /\ is_forecast' = <<>>
    /\ df_hist' = <<>>
    /\ df_fore' = <<>>
    /\ last_row' = NoRow
    /\ status' = NoStatus
    /\ raised' = "none"
    /\ ui' = {}
    /\ requested' = FALSE
    /\ window' = NoWindow
    /\ served_at' = 0
    /\ UNCHANGED <<variant, now, notCacheRun, clock, cache, api_up, city>>

NextCache ==
    \/ ClockTick
    \/ ApiChanges
    \/ Rerun
    \/ FetchPrecipCached
    \/ HourlyPlot
    \/ StatusCard
    \/ GetHourlyPrecipCached
    \/ SplitAndStatus
    \/ EndRun

SpecCache == InitCache /\ [][NextCache]_vars

---------------------------------------------------------------------------
(* Properties *)

Count(seq, x) == Cardinality({i \in DOMAIN seq : seq[i] = x})

SplitDone == "chart" \in ui

\* C1: the split puts a row in forecast iff its timestamp is strictly greater
\* than now; every observed row has timestamp <= now and every forecast row
\* has timestamp > now, rows with an unparsed timestamp included.
C1_SplitStrictlyByNow ==
    SplitDone =>
        /\ \A i \in 1..Len(df_hourly) :
              is_forecast[i] <=> TimeGT(df_hourly[i].time, now)
        /\ df_fore = Filter(df_hourly, is_forecast, TRUE)
        /\ \A i \in 1..Len(df_hist) : TimeLE(df_hist[i].time, now)
        /\ \A i \in 1..Len(df_fore) : TimeGT(df_fore[i].time, now)

\* C2: the observed part followed by the forecast part is the series itself:
\* same rows, same order.
C2_ConcatReconstructs ==
    SplitDone => df_hist \o df_fore = df_hourly

\* the series a variant computes its status from
Series == IF variant = "google_streamlit_app" THEN df_radius ELSE df_hourly

\* latest_observed: the last row with timestamp <= now, else the last row
LatestObserved(series, n) ==
    LET obs == Filter(series, [i \in 1..Len(series) |->
                                 TimeLE(series[i].time, n)], TRUE)
    IN IF obs # <<>> THEN ILocLast(obs) ELSE ILocLast(series)

\* C3: the status is computed from the last row with timestamp <= now, or from
\* the latest row when there is none; there is no status only when the series
\* is empty, and then the run does not fail.
C3_LatestObserved ==
    /\ status.shown => last_row = LatestObserved(Series, now)
    /\ (pc = "done" /\ variant # "test_env") => (status.shown <=> Series # <<>>)
    /\ pc = "status_raised" => Series # <<>>

\* C4: the band of a value is NONE when value <= 0, MILD when 0 < value <= 2 mm
\* and STRONG when value > 2 mm, for rain_emoji and for the radius status
\* card; every value, NaN included, gets exactly one of the three bands.
C4_ThresholdBands ==
    bands.done =>
        /\ bands.rain_emoji \in {"NONE", "MILD", "STRONG"}
        /\ bands.google \in {"NONE", "MILD", "STRONG"}
        /\ ~cell.raw.null =>
              /\ cell.raw.v <= 0 =>
                    bands.rain_emoji = "NONE" /\ bands.google = "NONE"
              /\ (cell.raw.v > 0 /\ cell.raw.v <= 200) =>
                    bands.rain_emoji = "MILD" /\ bands.google = "MILD"
              /\ cell.raw.v > 200 =>
                    bands.rain_emoji = "STRONG" /\ bands.google = "STRONG"

\* exactly 2 mm has been classified, as MILD
C4_Witness ==
    bands.done /\ cell.raw = Num(200) /\ bands.rain_emoji = "MILD"
        /\ bands.google = "MILD"

\* C5: for every latest-sample cell, null included, the status card of
\* streamlit_app.py and the status of old_app.py give the same band.
C5_SameBandAllCallers ==
    bands.done => bands.streamlit_app = bands.old_app

\* the rows of the response whose timestamp parses
ValidRows(d) ==
    Filter(Frame(d.time, d.precip),
           [i \in 1..Len(d.time) |-> d.time[i].k = "iso"], TRUE)

FullBlock(d) == ~d.error /\ d.hourly /\ d.hasTime /\ d.hasPrecip

\* C6: a row whose timestamp cannot be parsed is absent from the series, every
\* valid row is present, and the series is not aborted.
C6_MalformedRowsSkipped ==
    (FullBlock(data) /\ pc # "start" /\ variant \in {"streamlit_app", "test_env"}) =>
        /\ raised = "none"
        /\ \A i \in 1..Len(df_hourly) : ~df_hourly[i].time.nat
        /\ Len(df_hourly) = Len(ValidRows(data))
        /\ \A i \in 1..Len(df_hourly) :
              Count(df_hourly, df_hourly[i]) = Count(ValidRows(data), df_hourly[i])

\* C7: the series is no longer than the input, ascending by timestamp, and
\* holds no two rows with the same timestamp.
C7_SortedNoDuplicates ==
    (FullBlock(data) /\ pc = "fetched") =>
        /\ Len(df_hourly) <= Len(data.time)
        /\ \A i, j \in 1..Len(df_hourly) :
              (i < j /\ ~df_hourly[i].time.nat /\ ~df_hourly[j].time.nat) =>
                  df_hourly[i].time.h < df_hourly[j].time.h

\* the response lacks an expected field
MissingFields(d) == d.error \/ ~d.hourly \/ ~d.hasTime \/ ~d.hasPrecip

\* C8: when the response lacks an expected field, fetch_precip returns an empty
\* series and does not raise, and the run shows the no-data warning instead
\* of the chart. Stated for streamlit_app.py; get_hourly_precip of old_app.py
\* raises on every such response.
C8_MissingFieldsGiveEmpty ==
    (variant = "streamlit_app" /\ MissingFields(data) /\ pc # "start") =>
        /\ raised = "none"
        /\ df_hourly = <<>>
        /\ pc \in {"plotted", "done"} =>
              "no_data_warning" \in ui /\ "chart" \notin ui

EmptyInput(d) == FullBlock(d) /\ d.time = <<>> /\ d.precip = <<>>

\* C9: on empty input lists nothing fails: the series and both parts of the
\* split are empty, no status is produced and the run completes.
C9_EmptyInputNeverFails ==
    EmptyInput(data) =>
        /\ raised = "none"
        /\ df_hourly = <<>> /\ df_hist = <<>> /\ df_fore = <<>>
        /\ ~status.shown

\* the sum of the input values dated in month m, nulls skipped
RECURSIVE MonthTotalUpTo(_, _, _)
MonthTotalUpTo(d, m, n) ==
    IF n = 0 THEN 0
    ELSE MonthTotalUpTo(d, m, n - 1)
         + (IF d.time[n].k = "iso" /\ d.time[n].m = m /\ ~d.precip[n].null
            THEN d.precip[n].v ELSE 0)

MonthTotal(d, m) == MonthTotalUpTo(d, m, Len(d.time))

InputMonths(d) == {d.time[i].m : i \in {j \in 1..Len(d.time) : d.time[j].k = "iso"}}

MonthlyReturned == pc \in {"fetched", "done"}

\* the table has one row per calendar month that holds a sample, keyed by
\* the first day of the month, with the sum of exactly that month's samples
GroupedByMonth ==
    /\ \A k \in 1..Len(df_monthly) :
          /\ ~df_monthly[k].month.nat
          /\ df_monthly[k].month.d = 1
          /\ df_monthly[k].month.m \in InputMonths(daily)
          /\ df_monthly[k].precip = Num(MonthTotal(daily, df_monthly[k].month.m))
    /\ \A k, l \in 1..Len(df_monthly) :
          k # l => df_monthly[k].month # df_monthly[l].month
    /\ Cardinality(InputMonths(daily)) <= 12 =>
          \A m \in InputMonths(daily) :
             \E k \in 1..Len(df_monthly) : df_monthly[k].month.m = m

\* the table holds the entries of the source, one row each, keyed by the
\* entry's own timestamp
SourceEntries(d) ==
    [i \in 1..Len(d.time) |->
        [month |-> ToDateCoerce(d.time[i]), precip |-> d.precip[i]]]

Ungrouped ==
    Len(daily.time) <= 12 =>
        /\ Len(df_monthly) = Len(daily.time)
        /\ \A k \in 1..Len(df_monthly) :
              Count(df_monthly, df_monthly[k])
                  = Count(SourceEntries(daily), df_monthly[k])

\* C10 as stated: in every variant that produces the 12-month table the rows
\* are keyed by the first day of the calendar month and each total is the sum
\* of exactly the samples of that month.
C10_EveryVariantGroups ==
    MonthlyReturned => GroupedByMonth

\* C10 amended: fetch_monthly_precip of streamlit_app.py and test_env.py groups
\* by the first day of the calendar month and sums exactly that month's
\* samples; get_monthly_precip of old_app.py does not group, it returns the
\* source's entries one row each under their own timestamps.
C10_MonthlyRollup ==
    MonthlyReturned =>
        /\ variant \in {"streamlit_app", "test_env"} => GroupedByMonth
        /\ variant = "old_app" => Ungrouped

\* the shape of the claim's example: 1 mm and 2 mm on 1 January and one value
\* on 15 February have been rolled up to (1 January, 3 mm), (1 February, 2 mm)
C10_Witness ==
    /\ variant = "streamlit_app"
    /\ pc = "fetched"
    /\ daily.time = <<IsoDate(1, 1), IsoDate(1, 1), IsoDate(2, 15)>>
    /\ daily.precip = <<Num(100), Num(200), Num(200)>>
    /\ df_monthly = <<[month |-> Date(1, 1), precip |-> Num(300)],
                      [month |-> Date(2, 1), precip |-> Num(200)]>>

\* the sum of a list of daily values with a null counted as 0
RECURSIVE SumNullAsZero(_, _)
SumNullAsZero(vals, n) ==
    IF n = 0 THEN 0
    ELSE SumNullAsZero(vals, n - 1) + (IF vals[n].null THEN 0 ELSE vals[n].v)

\* C11: a sum of precipitation values does not fail on a null entry and does
\* not propagate it: when every state's request was answered, get_state_precip
\* raises nothing and each state's total is the number obtained by counting
\* the nulls as 0.
C11_MissingCountsAsZero ==
    (pc # "start" /\ \A i \in 1..Len(state_vals) : ~state_vals[i].error) =>
        /\ raised = "none"
        /\ Len(df_states) = Len(state_vals)
        /\ \A i \in 1..Len(df_states) :
              df_states[i].precip
                  = Float(SumNullAsZero(state_vals[i].vals,
                                        Len(state_vals[i].vals)))

\* the months of the input that have fewer than 12 later months in the input
LastMonths(d) ==
    {m \in InputMonths(d) :
        Cardinality({m2 \in InputMonths(d) : m2 > m}) < TrailingMonths}

AtMostTrailing == Len(df_monthly) <= 12

NoPadding ==
    \A k \in 1..Len(df_monthly) :
        ~df_monthly[k].month.nat /\ df_monthly[k].month.m \in InputMonths(daily)

StrictlyAscending ==
    \A k, l \in 1..Len(df_monthly) :
        k < l => DateKey(df_monthly[k].month) < DateKey(df_monthly[l].month)

\* the rows are exactly the last 12 calendar months that hold a sample, all
\* of them when there are fewer
KeepsLastMonths ==
    {df_monthly[k].month.m : k \in 1..Len(df_monthly)} = LastMonths(daily)

\* old_app.py: the rows are the last 12 entries of the source in timestamp
\* order, all of them when there are fewer, in non-decreasing order
KeepsLastEntries ==
    /\ Len(df_monthly) = (IF Len(daily.time) <= 12 THEN Len(daily.time) ELSE 12)
    /\ \A k, l \in 1..Len(df_monthly) :
          k < l => DateKey(df_monthly[k].month) <= DateKey(df_monthly[l].month)
    /\ \A k \in 1..Len(df_monthly) :
          Count(df_monthly, df_monthly[k])
              <= Count(SourceEntries(daily), df_monthly[k])
    /\ \A i \in 1..Len(daily.time) :
          (df_monthly # <<>>
           /\ DateKey(SourceEntries(daily)[i].month)
                 > DateKey(df_monthly[1].month)) =>
              Count(df_monthly, SourceEntries(daily)[i])
                  = Count(SourceEntries(daily), SourceEntries(daily)[i])

\* C12 as stated: in every variant the 12-month table lists its months in
\* strictly ascending order, holds at most 12 rows, the last 12 months of the
\* input (all of them when there are fewer), and no month without a sample.
C12_EveryVariantStrictlyAscending ==
    MonthlyReturned =>
        /\ AtMostTrailing
        /\ NoPadding
        /\ StrictlyAscending

\* C12 amended: fetch_monthly_precip of streamlit_app.py and test_env.py
\* returns the last 12 calendar months that hold a sample (all of them when
\* there are fewer), strictly ascending, none without a sample; old_app.py's
\* get_monthly_precip returns the last 12 entries of the source in
\* non-decreasing timestamp order, where equal timestamps may repeat.
C12_TrailingMonths ==
    MonthlyReturned =>
        /\ AtMostTrailing
        /\ NoPadding
        /\ variant \in {"streamlit_app", "test_env"} =>
              StrictlyAscending /\ KeepsLastMonths
        /\ variant = "old_app" => KeepsLastEntries

\* thirteen months, listed newest first, have been cut to the last twelve:
\* the table starts at the second month
C12_Witness ==
    /\ variant = "streamlit_app"
    /\ pc = "fetched"
    /\ daily.time = LongTimes(13, FALSE)
    /\ Len(df_monthly) = 12
    /\ df_monthly[1] = [month |-> Date(2, 1), precip |-> Num(100)]
    /\ df_monthly[12].month = Date(13, 1)

\* the input with rows i and i + 1 exchanged
SwapRows(d, i) ==
    [d EXCEPT !.time = [k \in 1..Len(d.time) |->
                           IF k = i THEN d.time[i + 1]
                           ELSE IF k = i + 1 THEN d.time[i] ELSE d.time[k]],
              !.precip = [k \in 1..Len(d.precip) |->
                           IF k = i THEN d.precip[i + 1]
                           ELSE IF k = i + 1 THEN d.precip[i] ELSE d.precip[k]]]

\* the table the variant's roll-up computes from d
RollupOf(v, d) ==
    IF v = "streamlit_app" THEN FetchMonthlyTable(d) ELSE FetchMonthlyEnvTable(d)

C14_ComparableWithNow ==
    pc \notin {"start", "fetch_raised"} =>
        /\ tz = "BRT"
        /\ \A i \in 1..Len(df_hourly) :
              ~df_hourly[i].time.nat =>
                  \E j \in 1..Len(data.time) :
                      data.time[j] = Iso(df_hourly[i].time.h)
        /\ raised # "TypeError"

\* the step in which a run calls its cached hourly fetch
CachedFetchStep == pc = "start" /\ pc' \in {"fetched", "fetch_raised"}

\* C15: every cached hourly fetch has a time-to-live of 3600 s: a call whose
\* arguments have a stored result younger than the TTL returns that result
\* without a request to the source, and a call whose stored result is older
\* than the TTL requests again.
C15_TtlOnEveryCachedFetch ==
    [][CachedFetchStep =>
          /\ (cache[city].stored /\ clock - cache[city].at < CacheTtl) =>
                (~requested' /\ df_hourly' = cache[city].df /\ cache' = cache)
          /\ (cache[city].stored /\ clock - cache[city].at > CacheTtl) =>
                requested']_vars

\* C16: the series a run of streamlit_app.py uses was built for that run's own
\* request window, 7 days before to 2 days after the run's now: it carries
\* that window and ends with the last hour of it.
C16_SeriesOfOwnWindow ==
    (variant = "streamlit_app" /\ pc \in {"fetched", "plotted", "done"}
     /\ df_hourly # <<>>) =>
        /\ window = RequestWindow(NowOf(clock))
        /\ \E i \in 1..Len(df_hourly) :
              df_hourly[i].time = Ts(24 * (DayOf(NowOf(clock)) + ForecastDays + 1) - 1)

\* C17: in streamlit_app.py a failed request is stored like a success: the
\* empty table and the error payload are stored under the city's key, and a
\* later run for that city within the TTL gets them back without a new
\* request, whatever the source would answer now, and shows the no-data
\* warning instead of the chart.
C17_FailureCached ==
    [][/\ (variant = "streamlit_app" /\ CachedFetchStep) =>
             /\ (requested' /\ ~api_up) =>
                   /\ cache'[city].stored
                   /\ cache'[city].at = clock
                   /\ cache'[city].raw.error
                   /\ cache'[city].df = <<>>
             /\ (cache[city].stored /\ cache[city].raw.error
                 /\ clock - cache[city].at < CacheTtl) =>
                   /\ ~requested'
                   /\ df_hourly' = <<>>
                   /\ data'.error
                   /\ cache' = cache
       /\ (variant = "streamlit_app" /\ pc = "fetched" /\ pc' = "plotted"
           /\ data.error) =>
             ("no_data_warning" \in ui' /\ "chart" \notin ui')]_vars

\* the source answers again, and the run was served the failure stored by an
\* earlier run and has shown the warning
C17_Witness ==
    /\ variant = "streamlit_app"
    /\ pc = "plotted"
    /\ api_up
    /\ ~requested
    /\ data.error
    /\ served_at < clock
    /\ "no_data_warning" \in ui

\* the previous run split the very series this run was served
SameSeriesAsBefore ==
    prev_split.done /\ prev_split.city = city /\ prev_split.at = served_at

\* C18: the split is computed in every run against the now of that run: a
\* sample is forecast iff it is later than the current now; between two
\* consecutive runs on the same cached series a sample that was observed is
\* not forecast again; and the stored series is the one served, unchanged by
\* the split.
C18_SplitRecomputed ==
    "chart" \in ui =>
        /\ \A i \in 1..Len(df_hourly) :
              is_forecast[i] <=> TimeGT(df_hourly[i].time, NowOf(clock))
        /\ SameSeriesAsBefore =>
              \A i \in 1..Len(is_forecast) : is_forecast[i] => prev_split.mask[i]
        /\ cache[city].df = df_hourly
        /\ cache[city].at = served_at

\* a run served from the cache has moved a sample that the previous run on
\* the same series showed as forecast to the observed part
C18_Witness ==
    /\ "chart" \in ui
    /\ ~requested
    /\ SameSeriesAsBefore
    /\ \E i \in 1..Len(is_forecast) : prev_split.mask[i] /\ ~is_forecast[i]

\* a point that gave no table: its request failed or its answer has no
\* "forecastHours"
PointFailed(r) == r.error \/ ~r.hasHours

\* the timestamps reported by the points, and the values reported for one
ReportedTimes(resps) ==
    {TzConvertBRT(resps[i].hours[k].forecastTime) :
        <<i, k>> \in {ik \in (1..Len(resps)) \X (1..MaxHours) :
                        /\ ~PointFailed(resps[ik[1]])
                        /\ ik[2] <= Len(resps[ik[1]].hours)}}

ValuesAt(resps, t) ==
    {AmountValue(resps[i].hours[k].amount).v :
        <<i, k>> \in {ik \in (1..Len(resps)) \X (1..MaxHours) :
                        /\ ~PointFailed(resps[ik[1]])
                        /\ ik[2] <= Len(resps[ik[1]].hours)
                        /\ TzConvertBRT(resps[ik[1]].hours[ik[2]].forecastTime) = t}}

\* the responses with points i and i + 1 queried in the other order
SwapPoints(resps, i) ==
    [k \in 1..Len(resps) |->
        IF k = i THEN resps[i + 1] ELSE IF k = i + 1 THEN resps[i] ELSE resps[k]]

\* the table holds one row per reported timestamp with the maximum of the
\* values reported for it, ascending by time, whatever the order of the
\* points, and is empty iff every point failed
MaxPerTimestamp ==
    /\ \A k \in 1..Len(df_radius) :
          /\ df_radius[k].time \in ReportedTimes(points)
          /\ df_radius[k].precip.v \in ValuesAt(points, df_radius[k].time)
          /\ \A v \in ValuesAt(points, df_radius[k].time) :
                v <= df_radius[k].precip.v
    /\ \A t \in ReportedTimes(points) :
          Cardinality({k \in 1..Len(df_radius) : df_radius[k].time = t}) = 1
    /\ \A k, l \in 1..Len(df_radius) :
          k < l => df_radius[k].time.h < df_radius[l].time.h
    /\ \A i \in 1..(Len(points) - 1) :
          FetchMaxPrecipRadiusTable(SwapPoints(points, i)) = df_radius
    /\ df_radius = <<>> <=> \A i \in 1..Len(points) : PointFailed(points[i])

\* C19: fetch_max_precip_radius returns a table with one row per timestamp
\* reported by some point, holding the maximum of the values reported for it;
\* points whose request failed are skipped, the rows ascend by time, the
\* order of the points does not matter, and the table is empty iff every
\* point failed.
C19_MaxPerTimestamp ==
    pc # "start" => (raised = "none" /\ MaxPerTimestamp)

\* C20: every sampling point lies within radius_km of the centre,
\* (i * step_km)^2 + (j * step_km)^2 <= radius_km^2, and the centre is one of
\* the points.
C20_PointsWithinRadius ==
    pc # "start" =>
        /\ \A k \in 1..Len(grid) :
              grid[k].north * grid[k].north + grid[k].east * grid[k].east
                  <= RadiusKm10 * RadiusKm10
        /\ \E k \in 1..Len(grid) : grid[k] = [north |-> 0, east |-> 0]

====
